---- MODULE Spec2Model ----
(***************************************************************************)
(* Model of the swift authentication negotiators: the factory New, the     *)
(* request driver doRequest (both variants found in the repository), the   *)
(* v1, v2 and v3 codecs (Request / Response / queries) and the helpers     *)
(* readJson, drainAndClose, parseHeaders and flushKeepaliveConnections.    *)
(*                                                                         *)
(* Go values are modelled as follows.  A string is a TLA+ string, except   *)
(* the authUrl handed to New, which is a sequence of one-character strings *)
(* so that strings.Contains is a real substring search.  A pointer is a    *)
(* sequence of length 0 (nil) or 1 (the pointee).  A JSON document is the  *)
(* set of its <<path, value>> members, a path being the sequence of keys   *)
(* from the root; an object without members is the member <<path, "{}">>.  *)
(***************************************************************************)
EXTENDS Integers, Sequences, FiniteSets, TLC

VARIABLES
    version,      \* codec the factory built: 1, 2, 3; 0 when New returned an error
    pkg,          \* package the codec is linked in: "auth" or "swift_auth"
    c,            \* the caller's swift.Connection (the credentials object)
    headers,      \* v1Auth.headers
    Auth,         \* v2Auth.Auth / v3Auth.Auth (pointer)
    Headers,      \* v3Auth.Headers
    Region,       \* v2Auth.Region / v3Auth.Region
    useApiKey,    \* v2Auth.useApiKey
    useApiKeyOk,  \* v2Auth.useApiKeyOk
    notFirst,     \* v2Auth.notFirst
    attempts,     \* number of Request calls made so far
    httpCalls,    \* number of requests handed to the transport (cli.Do)
    closes,       \* Close() calls on the body of the response handled last
    flushes,      \* flushKeepaliveConnections calls since the last cli.Do
    lastOp,       \* "New", "Request", "Response" or "Query"
    lastErr,      \* outcome of the last operation
    prevErr,      \* outcome of the operation before the last
    lastBody,     \* JSON body of the request built last
    responded,    \* some Response call has run on this instance
    parsed,       \* Auth holds the result of a decode that returned no error
    query,        \* arguments of the last endpoint query
    result        \* value returned by the last endpoint query

vars == <<version, pkg, c, headers, Auth, Headers, Region, useApiKey, useApiKeyOk,
          notFirst, attempts, httpCalls, closes, flushes, lastOp, lastErr, prevErr,
          lastBody, responded, parsed, query, result>>

----------------------------------------------------------------------------
(* Bounds of the model. *)

MaxAttempts == 2      \* Request calls per authenticator
MaxEntries == 2       \* service catalog entries
MaxEndpoints == 2     \* endpoints per catalog entry

(* Program constants. *)

ApiKeyMinLen == 32    \* len(apiKey) >= 32 seeds useApiKey
StatusOkLow == 200
StatusOkHigh == 299

Nil == << >>
Ptr(x) == <<x>>
Deref(p) == p[1]

----------------------------------------------------------------------------
(* strings.Contains over character sequences. *)

Contains(s, sub) ==
    \E i \in 1..(Len(s) + 1) :
        /\ i + Len(sub) - 1 <= Len(s)
        /\ SubSeq(s, i, i + Len(sub) - 1) = sub

AuthUrls ==
    { <<"h", "/", "v", "1", ".", "0">>,
      <<"h", "/", "v", "2", ".", "0">>,
      <<"h", "/", "v", "3">>,
      <<"v", "2", "/", "v", "3">>,
      <<"v", "1", "/", "v", "2">>,
      <<"h", "/">> }

ApiKeyLens == {0, 31, 32, 33}
AuthVersions == 0..4

(* New returns the codec, or version 0 for the error returns. *)
InferVersion(authUrl, authVersion) ==
    IF authVersion # 0 THEN authVersion
    ELSE IF Contains(authUrl, <<"v", "3">>) THEN 3
    ELSE IF Contains(authUrl, <<"v", "2">>) THEN 2
    ELSE IF Contains(authUrl, <<"v", "1">>) THEN 1
    ELSE 0

SeedUseApiKey(apiKeyLen) == apiKeyLen >= ApiKeyMinLen

New(authUrl, apiKeyLen, authVersion) ==
    LET v == InferVersion(authUrl, authVersion) IN
    [ version   |-> IF v \in 1..3 THEN v ELSE 0,
      useApiKey |-> IF v = 2 THEN SeedUseApiKey(apiKeyLen) ELSE FALSE ]

----------------------------------------------------------------------------
(* swift.Connection: the fields the codecs read. *)

EmptyConn ==
    [ UserName |-> "", UserId |-> "", ApiKey |-> "", Tenant |-> "", TenantId |-> "",
      TenantDomain |-> "", TenantDomainId |-> "", Domain |-> "", DomainId |-> "",
      TrustId |-> "", ApplicationCredentialId |-> "", ApplicationCredentialName |-> "",
      ApplicationCredentialSecret |-> "", Region |-> "" ]

(* Credentials of a v1 caller (v1 reads UserName and ApiKey only). *)
V1Conns ==
    { [EmptyConn EXCEPT !.UserName = u, !.ApiKey = k] : u \in {"", "user"}, k \in {"", "key"} }

(* Credentials of a v2 caller (v2 reads UserName, ApiKey, Tenant, TenantId, Region). *)
V2Conns ==
    { [EmptyConn EXCEPT !.UserName = u, !.ApiKey = "key", !.Tenant = t, !.TenantId = ti,
                        !.Region = r] :
        u \in {"", "user"}, t \in {"", "tenant"}, ti \in {"", "tid"}, r \in {"", "B"} }

(* Credentials of a v3 caller.  The identity part of the request is built   *)
(* from the application credential, user and domain fields; the scope from  *)
(* the trust, tenant and domain fields and from whether the identity method *)
(* is the application credential.  V3IdentityConns takes every combination  *)
(* of the former (with and without a tenant), V3ScopeConns every            *)
(* combination of the latter under each identity method.                    *)
V3IdentityConns ==
    { [EmptyConn EXCEPT !.UserName = u, !.UserId = ui, !.ApiKey = "key",
                        !.Tenant = t, !.Domain = d, !.DomainId = di,
                        !.ApplicationCredentialId = ai, !.ApplicationCredentialName = an,
                        !.ApplicationCredentialSecret = as] :
        u \in {"", "user"}, ui \in {"", "uid"}, t \in {"", "tenant"}, d \in {"", "dom"},
        di \in {"", "domid"}, ai \in {"", "acid"}, an \in {"", "acname"},
        as \in {"", "secret"} }

V3Identities ==
    { EmptyConn,
      [EmptyConn EXCEPT !.UserName = "user"],
      [EmptyConn EXCEPT !.ApplicationCredentialId = "acid",
                        !.ApplicationCredentialSecret = "secret"],
      [EmptyConn EXCEPT !.ApplicationCredentialName = "acname",
                        !.ApplicationCredentialSecret = "secret", !.UserId = "uid"] }

V3ScopeConns ==
    { [id EXCEPT !.ApiKey = "key", !.Tenant = t, !.TenantId = ti,
                 !.TenantDomain = td, !.TenantDomainId = tdi,
                 !.Domain = d, !.DomainId = di, !.TrustId = tr] :
        id \in V3Identities,
        t \in {"", "tenant"}, ti \in {"", "tid"}, td \in {"", "tdom"},
        tdi \in {"", "tdomid"}, d \in {"", "dom"}, di \in {"", "domid"},
        tr \in {"", "trust"} }

V3Conns == V3IdentityConns \cup V3ScopeConns

----------------------------------------------------------------------------
(* encoding/json Marshal: members of the document below a path. *)

Str(path, s) == {<<path, s>>}
StrOmit(path, s) == IF s = "" THEN {} ELSE {<<path, s>>}
Obj(path, members) == IF members = {} THEN {<<path, "{}">>} ELSE members

IsPrefix(p, q) == Len(p) <= Len(q) /\ SubSeq(q, 1, Len(p)) = p
Below(doc, p) == {m \in doc : IsPrefix(p, m[1])}
Has(doc, p) == Below(doc, p) # {}

(* v2AuthRequest / v2AuthRequestRackspace, marshalled. *)
MarshalV2(useKey, cr) ==
    LET a == <<"auth">>
        cred == IF useKey THEN a \o <<"RAX-KSKEY:apiKeyCredentials">>
                ELSE a \o <<"passwordCredentials">>
        secret == IF useKey THEN <<"apiKey">> ELSE <<"password">>
    IN Str(cred \o <<"username">>, cr.UserName)
       \cup Str(cred \o secret, cr.ApiKey)
       \cup StrOmit(a \o <<"tenantName">>, cr.Tenant)
       \cup StrOmit(a \o <<"tenantId">>, cr.TenantId)

BodyUsesApiKey(body) == Has(body, <<"auth", "RAX-KSKEY:apiKeyCredentials">>)

(* The v3 request structures, marshalled. *)
MarshalDomain(path, p) ==
    IF p = Nil THEN {}
    ELSE Obj(path, StrOmit(path \o <<"id">>, Deref(p).Id)
                   \cup StrOmit(path \o <<"name">>, Deref(p).Name))

MarshalUser(path, u) ==
    Obj(path, MarshalDomain(path \o <<"domain">>, u.Domain)
              \cup StrOmit(path \o <<"id">>, u.Id)
              \cup StrOmit(path \o <<"name">>, u.Name)
              \cup StrOmit(path \o <<"password">>, u.Password))

MarshalPassword(path, p) ==
    IF p = Nil THEN {} ELSE Obj(path, MarshalUser(path \o <<"user">>, Deref(p).User))

MarshalToken(path, p) ==
    IF p = Nil THEN {} ELSE Str(path \o <<"id">>, Deref(p).Id)

MarshalApplicationCredential(path, p) ==
    IF p = Nil THEN {}
    ELSE Obj(path, StrOmit(path \o <<"id">>, Deref(p).Id)
                   \cup StrOmit(path \o <<"name">>, Deref(p).Name)
                   \cup StrOmit(path \o <<"secret">>, Deref(p).Secret)
                   \cup (IF Deref(p).User = Nil THEN {}
                         ELSE MarshalUser(path \o <<"user">>, Deref(Deref(p).User))))

MarshalProject(path, p) ==
    IF p = Nil THEN {}
    ELSE Obj(path, StrOmit(path \o <<"name">>, Deref(p).Name)
                   \cup StrOmit(path \o <<"id">>, Deref(p).Id)
                   \cup MarshalDomain(path \o <<"domain">>, Deref(p).Domain))

MarshalTrust(path, p) ==
    IF p = Nil THEN {} ELSE Str(path \o <<"id">>, Deref(p).Id)

MarshalScope(path, p) ==
    IF p = Nil THEN {}
    ELSE Obj(path, MarshalProject(path \o <<"project">>, Deref(p).Project)
                   \cup MarshalDomain(path \o <<"domain">>, Deref(p).Domain)
                   \cup MarshalTrust(path \o <<"OS-TRUST:trust">>, Deref(p).Trust))

MarshalMethods(path, ms) ==
    IF ms = << >> THEN {<<path, "null">>}
    ELSE {<<path \o <<ToString(i - 1)>>, ms[i]>> : i \in 1..Len(ms)}

MarshalV3(v3) ==
    LET id == <<"auth", "identity">> IN
    MarshalMethods(id \o <<"methods">>, v3.Methods)
    \cup MarshalPassword(id \o <<"password">>, v3.Password)
    \cup MarshalToken(id \o <<"token">>, v3.Token)
    \cup MarshalApplicationCredential(id \o <<"application_credential">>,
                                      v3.ApplicationCredential)
    \cup MarshalScope(<<"auth", "scope">>, v3.Scope)

----------------------------------------------------------------------------
(* v3Auth.Request: construction of the request structure. *)

v3AuthMethodToken == "token"
v3AuthMethodPassword == "password"
v3AuthMethodApplicationCredential == "application_credential"

v3User(domain, id, name, password) ==
    [Domain |-> domain, Id |-> id, Name |-> name, Password |-> password]
v3Domain(id, name) == [Id |-> id, Name |-> name]

(* Variant: the secret is not required for the application-credential method. *)
V3AppCredPathNoSecret(cr) ==
    cr.ApplicationCredentialId # "" \/ cr.ApplicationCredentialName # ""

V3AppCredPath(cr) ==
    /\ (cr.ApplicationCredentialId # "" \/ cr.ApplicationCredentialName # "")
    /\ cr.ApplicationCredentialSecret # ""

(* The caller's connection after the application-credential branch ran. *)
V3ConnAfter(cr) ==
    IF V3AppCredPath(cr) /\ cr.ApplicationCredentialId # ""
    THEN [cr EXCEPT !.ApplicationCredentialName = ""]
    ELSE cr

(* Variant: the domain name is not accepted as a domain reference. *)
V3AppCredUserDomainIdOnly(cr) ==
    LET u1 == IF cr.ApplicationCredentialId # "" THEN Ptr(v3User(Nil, "", "", "")) ELSE Nil
        u2 == IF u1 = Nil /\ cr.UserId # "" THEN Ptr(v3User(Nil, cr.UserId, "", "")) ELSE u1
        u3 == IF u2 = Nil /\ cr.DomainId # ""
              THEN Ptr(v3User(Ptr(v3Domain(cr.DomainId, "")), "", cr.UserName, ""))
              ELSE u2
    IN IF u2 = Nil /\ cr.UserName = ""
       THEN [err |-> "UserID or Name should be provided", user |-> Nil]
       ELSE IF u3 = Nil
       THEN [err |-> "DomainID or Domain should be provided", user |-> Nil]
       ELSE [err |-> "", user |-> u3]

(* The user reference of the application-credential branch, statement by      *)
(* statement: err is the message of the error return taken, "" when none is.  *)
V3AppCredUser(cr) ==
    LET u1 == IF cr.ApplicationCredentialId # "" THEN Ptr(v3User(Nil, "", "", "")) ELSE Nil
        u2 == IF u1 = Nil /\ cr.UserId # "" THEN Ptr(v3User(Nil, cr.UserId, "", "")) ELSE u1
        u3 == IF u2 = Nil /\ cr.DomainId # ""
              THEN Ptr(v3User(Ptr(v3Domain(cr.DomainId, "")), "", cr.UserName, ""))
              ELSE u2
        u4 == IF u3 = Nil /\ cr.Domain # ""
              THEN Ptr(v3User(Ptr(v3Domain("", cr.Domain)), "", cr.UserName, ""))
              ELSE u3
    IN IF u2 = Nil /\ cr.UserName = ""
       THEN [err |-> "UserID or Name should be provided", user |-> Nil]
       ELSE IF u4 = Nil
       THEN [err |-> "DomainID or Domain should be provided", user |-> Nil]
       ELSE [err |-> "", user |-> u4]

(* The identity part: method and the three blocks. *)
V3Identity(cr) ==
    IF V3AppCredPath(cr) THEN
        [ Methods  |-> <<v3AuthMethodApplicationCredential>>,
          Password |-> Nil,
          Token    |-> Nil,
          ApplicationCredential |->
              Ptr([ Id     |-> cr.ApplicationCredentialId,
                    Name   |-> V3ConnAfter(cr).ApplicationCredentialName,
                    Secret |-> cr.ApplicationCredentialSecret,
                    User   |-> V3AppCredUser(cr).user ]) ]
    ELSE IF cr.UserName = "" /\ cr.UserId = "" THEN
        [ Methods  |-> <<v3AuthMethodToken>>,
          Password |-> Nil,
          Token    |-> Ptr([Id |-> cr.ApiKey]),
          ApplicationCredential |-> Nil ]
    ELSE
        [ Methods  |-> <<v3AuthMethodPassword>>,
          Password |->
              Ptr([User |-> v3User(IF cr.Domain # "" THEN Ptr(v3Domain("", cr.Domain))
                                   ELSE IF cr.DomainId # "" THEN Ptr(v3Domain(cr.DomainId, ""))
                                   ELSE Nil,
                                   cr.UserId, cr.UserName, cr.ApiKey)]),
          Token    |-> Nil,
          ApplicationCredential |-> Nil ]

v3Project(name, id, domain) == [Name |-> name, Id |-> id, Domain |-> domain]
v3Scope(project, domain, trust) == [Project |-> project, Domain |-> domain, Trust |-> trust]

(* Variant: the connection's domain takes priority over the tenant's. *)
V3ProjectDomainConnFirst(cr) ==
    IF cr.Domain # "" THEN v3Domain("", cr.Domain)
    ELSE IF cr.DomainId # "" THEN v3Domain(cr.DomainId, "")
    ELSE IF cr.TenantDomain # "" THEN v3Domain("", cr.TenantDomain)
    ELSE IF cr.TenantDomainId # "" THEN v3Domain(cr.TenantDomainId, "")
    ELSE v3Domain("", "Default")

(* The project domain of a scope by tenant name. *)
V3ProjectDomain(cr) ==
    IF cr.TenantDomain # "" THEN v3Domain("", cr.TenantDomain)
    ELSE IF cr.TenantDomainId # "" THEN v3Domain(cr.TenantDomainId, "")
    ELSE IF cr.Domain # "" THEN v3Domain("", cr.Domain)
    ELSE IF cr.DomainId # "" THEN v3Domain(cr.DomainId, "")
    ELSE v3Domain("", "Default")

(* The scope, given the methods the identity part chose. *)
V3Scope(methods, cr) ==
    IF methods[1] # v3AuthMethodApplicationCredential THEN
        IF cr.TrustId # "" THEN Ptr(v3Scope(Nil, Nil, Ptr([Id |-> cr.TrustId])))
        ELSE IF cr.TenantId # "" \/ cr.Tenant # "" THEN
            IF cr.TenantId # "" THEN Ptr(v3Scope(Ptr(v3Project("", cr.TenantId, Nil)), Nil, Nil))
            ELSE Ptr(v3Scope(Ptr(v3Project(cr.Tenant, "", Ptr(V3ProjectDomain(cr)))), Nil, Nil))
        ELSE Nil
    ELSE Nil

v3AuthRequest(cr) ==
    LET id == V3Identity(cr) IN
    [ Methods  |-> id.Methods,
      Password |-> id.Password,
      Token    |-> id.Token,
      ApplicationCredential |-> id.ApplicationCredential,
      Scope    |-> V3Scope(id.Methods, cr) ]

(* Error returned before the request is issued, "" when none is. *)
V3ConfigError(cr) == IF V3AppCredPath(cr) THEN V3AppCredUser(cr).err ELSE ""

V3Body(cr) == MarshalV3(v3AuthRequest(cr))

----------------------------------------------------------------------------
(* Responses of the identity service. *)

EndpointTypeInternal == "internal"
EndpointTypePublic == "public"
EndpointTypeAdmin == "admin"
EndpointTypes == {EndpointTypeInternal, EndpointTypePublic, EndpointTypeAdmin, "other"}

v3CatalogTypeObjectStore == "object-store"
CdnType == "rax:object-cdn"
ServiceTypes == {v3CatalogTypeObjectStore, CdnType}
Regions == {"A", "B"}

(* A v2 endpoint at position j of catalog entry i; the URLs name the position. *)
V2Endpoint(i, j, r) ==
    [ InternalUrl |-> "int-" \o ToString(i) \o "-" \o ToString(j),
      PublicUrl   |-> "pub-" \o ToString(i) \o "-" \o ToString(j),
      AdminUrl    |-> "adm-" \o ToString(i) \o "-" \o ToString(j),
      Region      |-> r ]

(* A v3 endpoint at position j of catalog entry i. *)
V3Endpoint(i, j, r, iface) ==
    [ Url |-> "url-" \o ToString(i) \o "-" \o ToString(j), Region |-> r, Interface |-> iface ]

(* Catalog shapes: per entry its type and the regions of its endpoints. *)
RegionSeqs == UNION {[1..n -> Regions] : n \in 0..MaxEndpoints}
EntryShapes == ServiceTypes \X RegionSeqs
CatalogShapes == UNION {[1..n -> EntryShapes] : n \in 0..MaxEntries}

V2Catalog(shape) ==
    [ i \in 1..Len(shape) |->
        [ Type |-> shape[i][1],
          Endpoints |-> [j \in 1..Len(shape[i][2]) |-> V2Endpoint(i, j, shape[i][2][j])] ] ]

V3Catalog(shape) ==
    [ i \in 1..Len(shape) |->
        [ Type |-> shape[i][1],
          Endpoints |-> [j \in 1..Len(shape[i][2]) |->
                            V3Endpoint(i, j, shape[i][2][j],
                                       IF j = 1 THEN EndpointTypeInternal
                                       ELSE EndpointTypePublic)] ] ]

ShapeAB == << <<v3CatalogTypeObjectStore, <<"A", "B">> >> >>
ShapeBA == << <<CdnType, <<"B">> >>, <<v3CatalogTypeObjectStore, <<"B", "A">> >> >>

ValidTime == "2030-01-02T03:04:05Z"
ZeroTime == "0001-01-01T00:00:00Z"

(* A response body: a JSON text.  syntaxOk: it is well-formed JSON; mistyped: *)
(* the members whose value has a JSON type the target field cannot take.      *)
Doc(ok, bad, id, exp, shape) ==
    [syntaxOk |-> ok, mistyped |-> bad, tokenId |-> id, expires |-> exp, shape |-> shape]

DocT1 == Doc(TRUE, {}, "t1", ValidTime, ShapeAB)
DocT2 == Doc(TRUE, {}, "t2", "soon", ShapeBA)
DocMistyped == Doc(TRUE, {"expires"}, "t3", "", ShapeAB)
DocSyntax == Doc(FALSE, {}, "", "", << >>)

Header1 == ("X-Auth-Token" :> "tok1" @@ "X-Subject-Token" :> "sub1")
Header2 == ("X-Auth-Token" :> "tok2" @@ "X-Subject-Token" :> "sub2")

HttpResponse(code, header, body, closeErr) ==
    [StatusCode |-> code, Header |-> header, Body |-> body, closeErr |-> closeErr]

(* What cli.Do can hand back when it hands back a response: closeErr is the  *)
(* outcome of Close on its body.                                              *)
HttpResponses ==
    { HttpResponse(199, Header1, DocSyntax, FALSE),
      HttpResponse(300, Header2, DocT1, FALSE),
      HttpResponse(200, Header1, DocT1, FALSE),
      HttpResponse(299, Header2, DocT2, FALSE),
      HttpResponse(200, Header2, DocMistyped, FALSE),
      HttpResponse(200, Header1, DocSyntax, FALSE),
      HttpResponse(200, Header2, DocT2, TRUE) }

(* http.Header.Get on a possibly nil header map. *)
HeaderGet(h, key) ==
    IF h = Nil THEN ""
    ELSE IF key \in DOMAIN Deref(h) THEN Deref(h)[key] ELSE ""

----------------------------------------------------------------------------
(* json.Decoder.Decode into a freshly allocated response structure.  A syntax *)
(* error leaves the structure zero; a member of the wrong type is skipped and *)
(* reported after the rest has been stored.                                    *)

Field(doc, name, value, zero) ==
    IF doc.syntaxOk /\ name \notin doc.mistyped THEN value ELSE zero

DecodeErr(doc) == ~doc.syntaxOk \/ doc.mistyped # {}

DecodeV2(doc) ==
    [Access |-> [ ServiceCatalog |-> Field(doc, "serviceCatalog", V2Catalog(doc.shape), << >>),
                  Token |-> [ Expires |-> Field(doc, "expires", doc.expires, ""),
                              Id      |-> Field(doc, "id", doc.tokenId, "") ] ]]

DecodeV3(doc) ==
    [Token |-> [ ExpiresAt |-> Field(doc, "expires", doc.expires, ""),
                 Catalog   |-> Field(doc, "serviceCatalog", V3Catalog(doc.shape), << >>) ]]

(* readJson: the decode error, else the error of the deferred Close. *)
ReadJsonErr(resp) ==
    IF DecodeErr(resp.Body) THEN "decode"
    ELSE IF resp.closeErr THEN "close"
    ELSE ""

(* parseHeaders *)
StatusError(resp) == resp.StatusCode < StatusOkLow \/ resp.StatusCode > StatusOkHigh

----------------------------------------------------------------------------
(* Queries.  Reading through a nil pointer is a run-time panic. *)

Panic == "panic: nil pointer dereference"

RegionMatches(region, endpoint) == region = "" \/ region = endpoint.Region

V2UrlField(endpoint, endpointType) ==
    IF endpointType = EndpointTypeInternal THEN endpoint.InternalUrl
    ELSE IF endpointType = EndpointTypePublic THEN endpoint.PublicUrl
    ELSE IF endpointType = EndpointTypeAdmin THEN endpoint.AdminUrl
    ELSE ""

(* The inner loop of v2Auth.endpointUrl from endpoint j on: the index of the  *)
(* endpoint it returns at, 0 when it runs to the end.                          *)
RECURSIVE V2EndpointLoop(_, _, _)
V2EndpointLoop(endpoints, j, region) ==
    IF j > Len(endpoints) THEN 0
    ELSE IF RegionMatches(region, endpoints[j]) THEN j
    ELSE V2EndpointLoop(endpoints, j + 1, region)

(* Variant: the outer loop returns at the first entry of the type, whether *)
(* or not one of its endpoints matches.                                     *)
RECURSIVE V2CatalogLoopFirstEntry(_, _, _, _, _)
V2CatalogLoopFirstEntry(catalog, i, Type, endpointType, region) ==
    IF i > Len(catalog) THEN ""
    ELSE IF catalog[i].Type = Type
         THEN IF V2EndpointLoop(catalog[i].Endpoints, 1, region) # 0
              THEN V2UrlField(
                       catalog[i].Endpoints[V2EndpointLoop(catalog[i].Endpoints, 1, region)],
                       endpointType)
              ELSE ""
         ELSE V2CatalogLoopFirstEntry(catalog, i + 1, Type, endpointType, region)

(* The outer loop of v2Auth.endpointUrl from catalog entry i on. *)
RECURSIVE V2CatalogLoop(_, _, _, _, _)
V2CatalogLoop(catalog, i, Type, endpointType, region) ==
    IF i > Len(catalog) THEN ""
    ELSE IF catalog[i].Type = Type
              /\ V2EndpointLoop(catalog[i].Endpoints, 1, region) # 0
         THEN V2UrlField(catalog[i].Endpoints[V2EndpointLoop(catalog[i].Endpoints, 1, region)],
                         endpointType)
         ELSE V2CatalogLoop(catalog, i + 1, Type, endpointType, region)

V2endpointUrl(auth, region, Type, endpointType) ==
    IF auth = Nil THEN Panic
    ELSE V2CatalogLoop(Deref(auth).Access.ServiceCatalog, 1, Type, endpointType, region)

RECURSIVE V3EndpointLoop(_, _, _, _)
V3EndpointLoop(endpoints, j, endpointType, region) ==
    IF j > Len(endpoints) THEN 0
    ELSE IF endpoints[j].Interface = endpointType /\ RegionMatches(region, endpoints[j]) THEN j
    ELSE V3EndpointLoop(endpoints, j + 1, endpointType, region)

RECURSIVE V3CatalogLoop(_, _, _, _, _)
V3CatalogLoop(catalog, i, Type, endpointType, region) ==
    IF i > Len(catalog) THEN ""
    ELSE IF catalog[i].Type = Type
              /\ V3EndpointLoop(catalog[i].Endpoints, 1, endpointType, region) # 0
         THEN catalog[i].Endpoints[
                  V3EndpointLoop(catalog[i].Endpoints, 1, endpointType, region)].Url
         ELSE V3CatalogLoop(catalog, i + 1, Type, endpointType, region)

V3endpointUrl(auth, region, Type, endpointType) ==
    IF auth = Nil THEN Panic
    ELSE V3CatalogLoop(Deref(auth).Token.Catalog, 1, Type, endpointType, region)

(* time.Parse(time.RFC3339, s), the zero time on a parse error. *)
ParseTime(s) == IF s = ValidTime THEN s ELSE ZeroTime

V1Token == HeaderGet(headers, "X-Auth-Token")
V2Token == IF Auth = Nil THEN Panic ELSE Deref(Auth).Access.Token.Id
V3Token == HeaderGet(Headers, "X-Subject-Token")
Token == IF version = 1 THEN V1Token ELSE IF version = 2 THEN V2Token ELSE V3Token

V2Expires == IF Auth = Nil THEN Panic ELSE ParseTime(Deref(Auth).Access.Token.Expires)
V3Expires == IF Auth = Nil THEN Panic ELSE ParseTime(Deref(Auth).Token.ExpiresAt)
Expires == IF version = 2 THEN V2Expires ELSE V3Expires

StorageUrlForEndpoint(endpointType) ==
    IF version = 2 THEN V2endpointUrl(Auth, Region, v3CatalogTypeObjectStore, endpointType)
    ELSE V3endpointUrl(Auth, Region, v3CatalogTypeObjectStore, endpointType)

StorageUrl(Internal) ==
    StorageUrlForEndpoint(IF Internal THEN EndpointTypeInternal ELSE EndpointTypePublic)

----------------------------------------------------------------------------
(* The request driver. *)

TransportResults ==
    {[ok |-> FALSE, resp |-> Nil]} \cup {[ok |-> TRUE, resp |-> Ptr(r)] : r \in HttpResponses}

(* doRequest of package auth: err, and the Close and flush calls it made. *)
doRequestAuth(t) ==
    IF ~t.ok THEN [err |-> "transport", closes |-> 0, flushes |-> 0]
    ELSE IF StatusError(Deref(t.resp)) THEN [err |-> "status", closes |-> 1, flushes |-> 0]
    ELSE [err |-> "", closes |-> 0, flushes |-> 0]

(* doRequest of package swift_auth: the deferred function drains, closes and *)
(* flushes once a response was received; its error does not reach the caller. *)
doRequestSwiftAuth(t) ==
    IF ~t.ok THEN [err |-> "transport", closes |-> 0, flushes |-> 0]
    ELSE IF StatusError(Deref(t.resp)) THEN [err |-> "status", closes |-> 2, flushes |-> 1]
    ELSE [err |-> "", closes |-> 1, flushes |-> 1]

doRequest(p, t) == IF p = "swift_auth" THEN doRequestSwiftAuth(t) ELSE doRequestAuth(t)

(* Variants of the toggle: one that never flips, one that ignores useApiKeyOk. *)
ToggleStuck(first, ok, flag) == flag
ToggleAlways(first, ok, flag) == IF first THEN ~flag ELSE flag

(* The v2 toggle at the head of Request: the flag the body is built with. *)
Toggle(first, ok, flag) == IF first /\ ~ok THEN ~flag ELSE flag

----------------------------------------------------------------------------
(* Response of each codec, as the effect on the authenticator. *)

V1Response(resp) ==
    /\ headers' = Ptr(resp.Header)
    /\ UNCHANGED <<Auth, Headers, useApiKeyOk>>
    /\ parsed' = parsed
    /\ responded' = TRUE

V2Response(resp) ==
    /\ Auth' = Ptr(DecodeV2(resp.Body))
    /\ useApiKeyOk' = IF ReadJsonErr(resp) = "" THEN TRUE ELSE useApiKeyOk
    /\ UNCHANGED <<headers, Headers>>
    /\ parsed' = ~DecodeErr(resp.Body)
    /\ responded' = TRUE

V3Response(resp) ==
    /\ Auth' = Ptr(DecodeV3(resp.Body))
    /\ Headers' = Ptr(resp.Header)
    /\ UNCHANGED <<headers, useApiKeyOk>>
    /\ parsed' = ~DecodeErr(resp.Body)
    /\ responded' = TRUE

(* Error Response returns, and the Close calls it makes on the body. *)
ResponseErr(v, resp) == IF v = 1 THEN "" ELSE ReadJsonErr(resp)
ResponseCloses(v) == IF v = 1 THEN 0 ELSE 1

Outcome(err) == IF err = "" THEN "ok" ELSE err

(* auth.Response of the codec New built. *)
Response(resp) ==
    IF version = 1 THEN V1Response(resp)
    ELSE IF version = 2 THEN V2Response(resp)
    ELSE V3Response(resp)

(* doRequest followed, when it returned no error, by Response. *)
Exchange(t) ==
    LET d == doRequest(pkg, t) IN
    /\ httpCalls' = httpCalls + 1
    /\ flushes' = d.flushes
    /\ IF d.err # ""
       THEN /\ lastErr' = d.err
            /\ closes' = d.closes
            /\ UNCHANGED <<headers, Auth, Headers, useApiKeyOk, parsed, responded>>
       ELSE /\ Response(Deref(t.resp))
            /\ lastErr' = Outcome(ResponseErr(version, Deref(t.resp)))
            /\ closes' = d.closes + ResponseCloses(version)

----------------------------------------------------------------------------
(* Request of each codec: one whole authentication attempt. *)

V1Request ==
    /\ version = 1
    /\ attempts < MaxAttempts
    /\ \E t \in TransportResults : Exchange(t)
    /\ attempts' = attempts + 1
    /\ lastOp' = "Request"
    /\ prevErr' = lastErr
    /\ lastBody' = {}
    /\ UNCHANGED <<version, pkg, c, Region, useApiKey, notFirst, query, result>>

V2Request ==
    /\ version = 2
    /\ attempts < MaxAttempts
    /\ Region' = c.Region
    /\ useApiKey' = Toggle(notFirst, useApiKeyOk, useApiKey)
    /\ notFirst' = TRUE
    /\ lastBody' = MarshalV2(useApiKey', c)
    /\ \E t \in TransportResults : Exchange(t)
    /\ attempts' = attempts + 1
    /\ lastOp' = "Request"
    /\ prevErr' = lastErr
    /\ UNCHANGED <<version, pkg, c, query, result>>

V3Request ==
    /\ version = 3
    /\ attempts < MaxAttempts
    /\ Region' = c.Region
    /\ c' = V3ConnAfter(c)
    /\ IF V3ConfigError(c) # ""
       THEN /\ lastErr' = "config"
            /\ UNCHANGED <<headers, Auth, Headers, useApiKeyOk, parsed, responded,
                           httpCalls, closes, flushes, lastBody>>
       ELSE /\ lastBody' = V3Body(c)
            /\ \E t \in TransportResults : Exchange(t)
    /\ attempts' = attempts + 1
    /\ lastOp' = "Request"
    /\ prevErr' = lastErr
    /\ UNCHANGED <<version, pkg, useApiKey, notFirst, query, result>>

(* Response called by the caller with a response of its own. *)
ResponseCall(v) ==
    /\ version = v
    /\ \E resp \in HttpResponses :
          /\ Response(resp)
          /\ lastErr' = Outcome(ResponseErr(v, resp))
    /\ closes' = ResponseCloses(v)
    /\ flushes' = 0
    /\ lastOp' = "Response"
    /\ prevErr' = lastErr
    /\ UNCHANGED <<version, pkg, c, Region, useApiKey, notFirst, attempts, httpCalls,
                   lastBody, query, result>>

V1ResponseCall == ResponseCall(1)
V2ResponseCall == ResponseCall(2)
V3ResponseCall == ResponseCall(3)

----------------------------------------------------------------------------
(* The authenticators New returns (and the v1 codec of package swift_auth), *)
(* each with the connection of its caller.                                   *)

Conns(v) == IF v = 1 THEN V1Conns ELSE IF v = 2 THEN V2Conns ELSE IF v = 3 THEN V3Conns
            ELSE {EmptyConn}

Packages(v) == IF v = 1 THEN {"auth", "swift_auth"} ELSE {"auth"}

Fresh(v, flag, conn, p) ==
    /\ version = v
    /\ pkg = p
    /\ c = conn
    /\ headers = Nil
    /\ Auth = Nil
    /\ Headers = Nil
    /\ Region = ""
    /\ useApiKey = flag
    /\ useApiKeyOk = FALSE
    /\ notFirst = FALSE
    /\ attempts = 0
    /\ httpCalls = 0
    /\ closes = 0
    /\ flushes = 0
    /\ lastOp = "New"
    /\ lastErr = IF v = 0 THEN "config" ELSE "ok"
    /\ prevErr = ""
    /\ lastBody = {}
    /\ responded = FALSE
    /\ parsed = FALSE
    /\ query = <<"", "">>
    /\ result = ""

Init ==
    \E authUrl \in AuthUrls, apiKeyLen \in ApiKeyLens, authVersion \in AuthVersions :
        LET a == New(authUrl, apiKeyLen, authVersion) IN
        \E conn \in Conns(a.version), p \in Packages(a.version) :
            Fresh(a.version, a.useApiKey, conn, p)

Next ==
    \/ V1Request
    \/ V2Request
    \/ V3Request
    \/ V1ResponseCall
    \/ V2ResponseCall
    \/ V3ResponseCall

Spec == Init /\ [][Next]_vars

----------------------------------------------------------------------------
(* Endpoint resolution on a v2 authenticator, over every catalog within the  *)
(* bounds: the authenticator after one attempt that went through, and the    *)
(* queries of its caller.                                                     *)

EndpointConns == {[EmptyConn EXCEPT !.ApiKey = "key", !.Region = r] : r \in {""} \cup Regions}

InitEndpoint ==
    \E conn \in EndpointConns, shape \in CatalogShapes :
        /\ version = 2
        /\ pkg = "auth"
        /\ c = conn
        /\ headers = Nil
        /\ Auth = Ptr(DecodeV2(Doc(TRUE, {}, "t1", ValidTime, shape)))
        /\ Headers = Nil
        /\ Region = conn.Region
        /\ useApiKey = FALSE
        /\ useApiKeyOk = TRUE
        /\ notFirst = TRUE
        /\ attempts = 1
        /\ httpCalls = 1
        /\ closes = 1
        /\ flushes = 0
        /\ lastOp = "Request"
        /\ lastErr = "ok"
        /\ prevErr = "ok"
        /\ lastBody = MarshalV2(FALSE, conn)
        /\ responded = TRUE
        /\ parsed = TRUE
        /\ query = <<"", "">>
        /\ result = ""

Query(Type, endpointType) ==
    /\ version = 2
    /\ query' = <<Type, endpointType>>
    /\ result' = V2endpointUrl(Auth, Region, Type, endpointType)
    /\ lastOp' = "Query"
    /\ UNCHANGED <<version, pkg, c, headers, Auth, Headers, Region, useApiKey, useApiKeyOk,
                   notFirst, attempts, httpCalls, closes, flushes, lastErr, prevErr,
                   lastBody, responded, parsed>>

V2StorageUrlForEndpoint == \E endpointType \in EndpointTypes :
    Query(v3CatalogTypeObjectStore, endpointType)

V2StorageUrl == \E Internal \in BOOLEAN :
    Query(v3CatalogTypeObjectStore,
          IF Internal THEN EndpointTypeInternal ELSE EndpointTypePublic)

V2CdnUrl == Query(CdnType, EndpointTypePublic)

NextEndpoint ==
    \/ V2StorageUrlForEndpoint
    \/ V2StorageUrl
    \/ V2CdnUrl

SpecEndpoint == InitEndpoint /\ [][NextEndpoint]_vars

----------------------------------------------------------------------------
(* Properties. *)

RequestStep == attempts' = attempts + 1

(* C1: on a v2 authenticator, when an attempt failed with a status error and *)
(* useApiKeyOk is still false, the body of the attempt that follows it is    *)
(* built with the opposite encoding flag.                                     *)
C1_FlagFlipsAfterStatusError ==
    [][ ( /\ version = 2
          /\ lastOp = "Request"
          /\ lastErr = "status"
          /\ ~useApiKeyOk
          /\ RequestStep )
        => BodyUsesApiKey(lastBody') = ~BodyUsesApiKey(lastBody) ]_vars

C1_Witness ==
    /\ version = 2
    /\ attempts = 2
    /\ lastOp = "Request"
    /\ prevErr = "status"
    /\ ~responded
    /\ BodyUsesApiKey(lastBody) = useApiKey

(* C2: a Response call that fails with a decode error on a v2 or v3          *)
(* authenticator holding a successfully parsed response leaves the stored    *)
(* response (and the v3 headers) and the results of Token, StorageUrl and    *)
(* Expires as they were.                                                      *)
C2_FailedResponseKeepsState ==
    [][ ( /\ version \in {2, 3}
          /\ parsed
          /\ lastErr' = "decode" )
        => /\ Auth' = Auth
           /\ Headers' = Headers
           /\ Token' = Token
           /\ Expires' = Expires
           /\ \A Internal \in BOOLEAN : StorageUrl(Internal)' = StorageUrl(Internal) ]_vars

(* C3: whenever the transport returned a response to an attempt, the body of *)
(* that response has been closed exactly once when Request returns.          *)
C3_BodyClosedOnce ==
    (version \in 1..3 /\ lastOp = "Request" /\ lastErr \in {"ok", "decode", "close", "status"})
    => closes = 1

(* C4: as long as no Response has run on the authenticator New returned,     *)
(* Token returns the empty string and does not fault.                        *)
C4_TokenEmptyBeforeResponse ==
    (version \in 1..3 /\ ~responded) => Token = ""

(* C5: on the application-credential path v3 Request returns a configuration *)
(* error exactly when applicationCredentialId and userId are empty and       *)
(* either userName is empty or domainId and domain both are; it has then     *)
(* issued no request to the transport.                                        *)
C5_ConfigErrorBeforeIO ==
    [][ ( /\ version = 3
          /\ RequestStep
          /\ (c.ApplicationCredentialId # "" \/ c.ApplicationCredentialName # "")
          /\ c.ApplicationCredentialSecret # "" )
        => /\ (lastErr' = "config")
              <=> ( /\ c.ApplicationCredentialId = ""
                    /\ c.UserId = ""
                    /\ (c.UserName = "" \/ (c.DomainId = "" /\ c.Domain = "")) )
           /\ (lastErr' = "config" => httpCalls' = httpCalls) ]_vars

C5_Witness ==
    /\ version = 3
    /\ lastOp = "Request"
    /\ lastErr = "config"
    /\ httpCalls = 0
    /\ c.ApplicationCredentialName # ""
    /\ c.ApplicationCredentialSecret # ""
    /\ c.UserName # ""
    /\ c.Domain = ""
    /\ c.DomainId = ""

(* C6: Request leaves every field of the caller's connection as it was.      *)
C6_CredentialsReadOnly ==
    [][ RequestStep => c' = c ]_vars

IdentityPath == <<"auth", "identity">>
ScopePath == <<"auth", "scope">>

(* The method the credentials call for, by the stated precedence. *)
MethodOf(cr) ==
    IF (cr.ApplicationCredentialId # "" \/ cr.ApplicationCredentialName # "")
          /\ cr.ApplicationCredentialSecret # ""
    THEN "application_credential"
    ELSE IF cr.UserName = "" /\ cr.UserId = "" THEN "token"
    ELSE "password"

BuiltBody == version = 3 /\ RequestStep /\ lastErr' # "config"

(* C7: every body v3 Request builds names exactly one method in              *)
(* identity.methods and carries exactly the block of that method, the method *)
(* being application_credential, else token, else password by the stated     *)
(* precedence.                                                                *)
C7_OneIdentityMethod ==
    [][ BuiltBody
        => /\ Below(lastBody', IdentityPath \o <<"methods">>)
                 = {<<IdentityPath \o <<"methods", "0">>, MethodOf(c)>>}
           /\ \A block \in {"application_credential", "token", "password"} :
                 Has(lastBody', IdentityPath \o <<block>>) <=> block = MethodOf(c) ]_vars

C7_Witness ==
    /\ version = 3
    /\ lastOp = "Request"
    /\ lastErr = "ok"
    /\ c.ApplicationCredentialName # ""
    /\ c.ApplicationCredentialSecret = ""
    /\ c.UserId # ""
    /\ Has(lastBody, IdentityPath \o <<"password">>)

(* The scope members the credentials call for. *)
ProjectDomainOf(cr) ==
    LET dom == ScopePath \o <<"project", "domain">> IN
    IF cr.TenantDomain # "" THEN <<dom \o <<"name">>, cr.TenantDomain>>
    ELSE IF cr.TenantDomainId # "" THEN <<dom \o <<"id">>, cr.TenantDomainId>>
    ELSE IF cr.Domain # "" THEN <<dom \o <<"name">>, cr.Domain>>
    ELSE IF cr.DomainId # "" THEN <<dom \o <<"id">>, cr.DomainId>>
    ELSE <<dom \o <<"name">>, "Default">>

ScopeOf(cr) ==
    IF MethodOf(cr) = "application_credential" THEN {}
    ELSE IF cr.TrustId # "" THEN {<<ScopePath \o <<"OS-TRUST:trust", "id">>, cr.TrustId>>}
    ELSE IF cr.TenantId # "" THEN {<<ScopePath \o <<"project", "id">>, cr.TenantId>>}
    ELSE IF cr.Tenant # ""
         THEN {<<ScopePath \o <<"project", "name">>, cr.Tenant>>, ProjectDomainOf(cr)}
    ELSE {}

(* C8: the scope of the body v3 Request builds: none with the application    *)
(* credential method; else the trust alone when trustId is set; else the     *)
(* project by id alone when tenantId is set; else the project by name with   *)
(* the domain by the stated priority when tenant is set; else none.          *)
C8_ScopeResolution ==
    [][ BuiltBody => Below(lastBody', ScopePath) = ScopeOf(c) ]_vars

C8_Witness ==
    /\ version = 3
    /\ lastOp = "Request"
    /\ lastErr = "ok"
    /\ c.ApplicationCredentialSecret = ""
    /\ c.TrustId = ""
    /\ c.TenantId = ""
    /\ c.Tenant # ""
    /\ c.TenantDomain = ""
    /\ c.TenantDomainId # ""
    /\ c.Domain # ""
    /\ <<ScopePath \o <<"project", "domain", "id">>, c.TenantDomainId>> \in lastBody

(* Positions <<i, j>> of the endpoints of the catalog that are in an entry   *)
(* of the type and in the configured region (any region when none is).       *)
Candidates(catalog, Type, region) ==
    { p \in UNION { {<<i, j>> : j \in 1..Len(catalog[i].Endpoints)} : i \in 1..Len(catalog) } :
        /\ catalog[p[1]].Type = Type
        /\ (region = "" \/ catalog[p[1]].Endpoints[p[2]].Region = region) }

Earliest(ps) ==
    CHOOSE p \in ps : \A q \in ps : p[1] < q[1] \/ (p[1] = q[1] /\ p[2] <= q[2])

(* The URL of the interface of the endpoint at a position. *)
UrlAt(p, endpointType) ==
    LET at == "-" \o ToString(p[1]) \o "-" \o ToString(p[2]) IN
    IF endpointType = "internal" THEN "int" \o at
    ELSE IF endpointType = "public" THEN "pub" \o at
    ELSE IF endpointType = "admin" THEN "adm" \o at
    ELSE ""

FirstEntryOfType(catalog, Type) ==
    {i \in 1..Len(catalog) : catalog[i].Type = Type /\ \A k \in 1..(i - 1) : catalog[k].Type # Type}

Queried == version = 2 /\ lastOp = "Query" /\ Auth # Nil

(* C9, as stated: the endpoint is looked for only in the first catalog entry *)
(* of the type.                                                               *)
C9_FirstEntryOnly ==
    Queried =>
        LET catalog == Deref(Auth).Access.ServiceCatalog
            ps == {p \in Candidates(catalog, query[1], Region) :
                      p[1] \in FirstEntryOfType(catalog, query[1])}
        IN result = IF ps = {} THEN "" ELSE UrlAt(Earliest(ps), query[2])

(* C9, amended: v2 endpointUrl goes through the catalog entries in order and *)
(* returns, for the requested interface, the URL of the first endpoint in    *)
(* the configured region (the first endpoint when no region is configured)   *)
(* of the first entry of the type that has such an endpoint; the empty       *)
(* string for an unrecognised interface or when no entry of the type has one.*)
C9_FirstEntryWithMatch ==
    Queried =>
        LET catalog == Deref(Auth).Access.ServiceCatalog
            ps == Candidates(catalog, query[1], Region)
        IN result = IF ps = {} THEN "" ELSE UrlAt(Earliest(ps), query[2])

C9_Witness ==
    /\ Queried
    /\ Region = "B"
    /\ query = <<"object-store", "public">>
    /\ Len(Deref(Auth).Access.ServiceCatalog) = 2
    /\ Deref(Auth).Access.ServiceCatalog[1].Type = "object-store"
    /\ Len(Deref(Auth).Access.ServiceCatalog[1].Endpoints) = 1
    /\ Deref(Auth).Access.ServiceCatalog[1].Endpoints[1].Region = "A"
    /\ result = "pub-2-1"

C11_FlushedAfterResponse ==
    (version \in 1..3 /\ lastOp = "Request" /\ lastErr \in {"ok", "decode", "close", "status"})
    => flushes >= 1

====
